---- MODULE Spec2Model ----
(***************************************************************************)
(* PostHog -> Slack reporters: daily_slack_reporter.py,                    *)
(* error_slack_reporter.py and posthog_to_slack.py.                        *)
(*                                                                         *)
(* One run of one script is a state machine: configuration check, the      *)
(* HogQL / REST fetches in program order, the assembly of the Slack        *)
(* blocks, the webhook post, the process exit.  The pure computations      *)
(* (funnel conversion, fmt_change, the "other buys" reconciliation,        *)
(* format_error_properties) are operators; each also has a specification   *)
(* of its own whose initial states enumerate its inputs.                   *)
(*                                                                         *)
(* Python values: a str is a tuple of character codes wrapped by Str, None *)
(* is the record None; percentages rounded to one decimal are integers in  *)
(* tenths of a percent.                                                    *)
(***************************************************************************)
EXTENDS FiniteSets, Integers, Sequences, TLC

VARIABLES
    script,             \* which script runs: "daily", "error", "digest"; "none" in the function specifications
    mode,               \* "normal" or "test" (argparse --test)
    env,                \* the environment variables set to a non-empty value
    now,                \* datetime.utcnow() of the run
    pc,                 \* position of the run
    exit_code,          \* process exit status, -1 while running
    trace,              \* the network requests issued so far, in order
    stdout,             \* the messages printed so far, in order
    events,             \* the backend's events table
    idx,                \* loop position (rule, fetch or dashboard index)
    all_errors,         \* check_errors: insertion-ordered dict event -> {definition, errors}
    total_error_count,  \* check_errors: running total
    blocks,             \* the Slack blocks built by the run
    metrics,            \* generate_daily_report: the results fetched so far
    rules,              \* check_errors: the ERROR_DEFINITIONS list of the run
    call,               \* function specifications: the call's arguments
    ret                 \* function specifications: the returned value

vars == <<script, mode, env, now, pc, exit_code, trace, stdout, events, idx,
          all_errors, total_error_count, blocks, metrics, rules, call, ret>>

(***************************************************************************)
(* Bounds of the model                                                     *)
(***************************************************************************)
MaxRules == 3           \* the run checks the first MaxRules rules of ERROR_DEFINITIONS
MaxMatching == 11       \* events matching one rule in the window (one more than the LIMIT)
MaxTiles == 2           \* tiles of one dashboard
MaxRows == 4            \* rows of the events table in the funnel specification
MaxCount == 4           \* started / completed of a funnel result row
MaxBuy == 2             \* per-platform counts given to the reconciliation
MaxMetric == 15         \* current / previous given to fmt_change
MaxValueLen == 82       \* length of a property value given to format_error_properties
MaxWindowRows == 3      \* rows of the events table in the window specification

(***************************************************************************)
(* Python values                                                           *)
(***************************************************************************)
None == [type |-> "NoneType", s |-> <<>>]
Str(chars) == [type |-> "str", s |-> chars]

\* `ret` before the call of a function specification returns
Pending == [pending |-> TRUE]

\* Python truthiness of None / str: `if value:`
Truthy(value) == value.type = "str" /\ Len(value.s) > 0

Range(seq) == {seq[i] : i \in 1..Len(seq)}

Min(a, b) == IF a < b THEN a ELSE b

RECURSIVE SumSeq(_)
SumSeq(seq) == IF seq = <<>> THEN 0 ELSE Head(seq) + SumSeq(Tail(seq))

\* dict.get(key) on a dict modelled as a function
Get(dict, key) == IF key \in DOMAIN dict THEN dict[key] ELSE None

(***************************************************************************)
(* Configuration                                                           *)
(***************************************************************************)
DailyEnvVars  == {"POSTHOG_API_KEY", "POSTHOG_PROJECT_ID", "SLACK_WEBHOOK_DAILY"}
ErrorEnvVars  == {"POSTHOG_API_KEY", "POSTHOG_PROJECT_ID", "SLACK_WEBHOOK_ERRORS"}
DashboardVars == <<"DASHBOARD_ERROR_MONITORING", "DASHBOARD_BUY_FLOW", "DASHBOARD_UI_UX_HEALTH">>
DigestEnvVars == {"POSTHOG_API_KEY", "POSTHOG_PROJECT_ID", "SLACK_WEBHOOK_URL"} \cup Range(DashboardVars)

EnvVars(s) == CASE s = "daily"  -> DailyEnvVars
                [] s = "error"  -> ErrorEnvVars
                [] s = "digest" -> DigestEnvVars

\* the names check_config collects in `missing`, in order (os.environ.get
\* yields None for an unset variable; None and "" are both falsy)
MissingOf(names, e) == SelectSeq(names, LAMBDA v : v \notin e)

daily_check_config(e) ==
    MissingOf(<<"POSTHOG_API_KEY", "POSTHOG_PROJECT_ID", "SLACK_WEBHOOK_DAILY">>, e)

\* error_check_config without the webhook test
error_check_config_no_webhook(e) ==
    MissingOf(<<"POSTHOG_API_KEY", "POSTHOG_PROJECT_ID">>, e)

error_check_config(e) ==
    MissingOf(<<"POSTHOG_API_KEY", "POSTHOG_PROJECT_ID", "SLACK_WEBHOOK_ERRORS">>, e)

\* posthog_to_slack.get_dashboards: the dashboards whose variable is set, in order
get_dashboards(e) == SelectSeq(DashboardVars, LAMBDA v : v \in e)

\* posthog_to_slack.main: the first ValueError raised by the validation, or "ok"
digest_validate(e) ==
    IF "POSTHOG_API_KEY" \notin e THEN "POSTHOG_API_KEY environment variable required"
    ELSE IF "POSTHOG_PROJECT_ID" \notin e THEN "POSTHOG_PROJECT_ID environment variable required"
    ELSE IF "SLACK_WEBHOOK_URL" \notin e THEN "SLACK_WEBHOOK_URL environment variable required"
    ELSE IF get_dashboards(e) = <<>> THEN "At least one DASHBOARD_* environment variable required"
    ELSE "ok"

(***************************************************************************)
(* HTTP                                                                    *)
(***************************************************************************)
FetchStatuses == {200, 400, 500}

\* requests.post of query_posthog got no response (connection refused, timeout)
\* and raised; the two reporters catch nothing
NoResponse == 0
FetchOutcomes == FetchStatuses \cup {NoResponse}
PostStatuses  == {200, 500}

\* query_posthog: None when the backend answers with status >= 400, else response.json()
query_posthog(response) ==
    IF response.status_code >= 400 THEN None ELSE response.json

\* a request to the analytics backend: what was asked, whether it failed,
\* how many result rows the answer carried
FetchEvent(what, failed, rows) ==
    [op |-> "fetch", what |-> what, failed |-> failed, rows |-> rows]

QueryEvent(what, response) ==
    FetchEvent(what, response.status_code >= 400,
               IF response.status_code >= 400 THEN 0 ELSE Len(response.json.results))

\* a request to the Slack webhook: the JSON payload and the answer's status
PostEvent(payload, status) ==
    [op |-> "post", payload |-> payload, status_code |-> status]

\* the payload of send_slack(blocks, text)
SlackPayload(blks, text) == [text |-> text, blocks |-> blks]

\* send_slack (both reporters): True iff the webhook answered 200
send_slack_result(status) == status = 200
send_slack_print(status) == IF status # 200 THEN "Slack error" ELSE "Sent to Slack"

(***************************************************************************)
(* The rows of the backend's events table and the WHERE clause every query  *)
(* shares                                                                  *)
(***************************************************************************)
Platforms == {"iOS", "Android"}

Row(event, distinct_id, os, timestamp) ==
    [event |-> event, distinct_id |-> distinct_id, os |-> os, timestamp |-> timestamp]

\* InScope with a closed window: timestamp <= date_to
InScope_closed(r, date_from, date_to) ==
    /\ r.timestamp >= date_from
    /\ r.timestamp <= date_to
    /\ r.os = "iOS" \/ r.os = "Android"

\* timestamp >= '{date_from}' AND timestamp < '{date_to}'
\* AND (properties.$os = 'iOS' OR properties.$os = 'Android')
InScope(r, date_from, date_to) ==
    /\ r.timestamp >= date_from
    /\ r.timestamp < date_to
    /\ r.os = "iOS" \/ r.os = "Android"

\* a set of result rows as a list, largest `key` first (ORDER BY ... DESC)
RECURSIVE OrderDesc(_, _)
OrderDesc(rows, key) ==
    IF rows = {} THEN <<>>
    ELSE LET first == CHOOSE r \in rows : \A q \in rows : r[key] >= q[key]
         IN <<first>> \o OrderDesc(rows \ {first}, key)

(***************************************************************************)
(* error_slack_reporter.py                                                 *)
(***************************************************************************)
MAX_ERRORS_PER_TYPE == 10

\* the first rules of ERROR_DEFINITIONS (event, name, filter, properties)
ERROR_DEFINITIONS_TABLE == <<
    [event |-> "auth_invite_code_result", name |-> "Invite Code Error",
     filter |-> "properties.status IN ('invalid', 'error')", properties |-> <<"status", "error">>],
    [event |-> "auth_otp_result", name |-> "OTP Error",
     filter |-> "properties.status = 'error'", properties |-> <<"status", "error">>],
    [event |-> "auth_consent_decision", name |-> "Consent Denied",
     filter |-> "properties.decision = 'deny'", properties |-> <<"decision">>],
    [event |-> "auth_logout_failed", name |-> "Logout Failed",
     filter |-> "None", properties |-> <<"error">>],
    [event |-> "buy_provider_availability_error", name |-> "Provider Availability Error",
     filter |-> "None", properties |-> <<"provider", "error">>] >>

ERROR_DEFINITIONS ==
    SubSeq(ERROR_DEFINITIONS_TABLE, 1, Min(MaxRules, Len(ERROR_DEFINITIONS_TABLE)))

S_iOS     == Str(<<105, 79, 83>>)
S_Android == Str(<<65, 110, 100, 114, 111, 105, 100>>)

\* the text of n characters whose i-th character has code 96 + i
Text(n) == [i \in 1..n |-> 96 + i]

\* the columns of the SELECT of get_errors_for_event
ErrorColumns(error_def) == <<"os", "session_id", "timestamp">> \o error_def.properties

\* the k-th oldest event of the window matching a rule (timestamp k), as a result row
BackendRow(error_def, k) ==
    << IF k % 2 = 1 THEN S_iOS ELSE S_Android,
       IF k % 3 # 0 THEN Str(<<115, 96 + k>>) ELSE None,
       Str(<<48 + k>>) >>
    \o [j \in 1..Len(error_def.properties) |->
           IF (k + j) % 2 = 0 THEN Str(<<96 + j, 96 + k>>) ELSE None]

\* BackendErrorJson for a query without its LIMIT clause
BackendErrorJson_no_limit(error_def, n) ==
    [columns |-> ErrorColumns(error_def),
     results |-> [i \in 1..n |-> BackendRow(error_def, n + 1 - i)]]

\* the backend's answer to the query when n events match:
\* ORDER BY timestamp DESC LIMIT MAX_ERRORS_PER_TYPE
BackendErrorJson(error_def, n) ==
    [columns |-> ErrorColumns(error_def),
     results |-> [i \in 1..Min(n, MAX_ERRORS_PER_TYPE) |-> BackendRow(error_def, n + 1 - i)]]

\* check_errors: now - timedelta(minutes=10) .. now; the error reporter's clock
\* ticks every five minutes
TenMinutes == 2
ErrorWindow(t) == <<t - TenMinutes, t>>

S_error   == Str(<<101, 114, 114, 111, 114>>)
S_invalid == Str(<<105, 110, 118, 97, 108, 105, 100>>)
S_deny    == Str(<<100, 101, 110, 121>>)

\* a row of the events table with the columns get_errors_for_event selects
ErrorRow(event, distinct_id, os, timestamp, session_id, properties) ==
    [event |-> event, distinct_id |-> distinct_id, os |-> os, timestamp |-> timestamp,
     session_id |-> session_id, properties |-> properties]

\* the rule's "filter" condition on a row's properties (None = any occurrence)
FilterHolds(filter, properties) ==
    CASE filter = "None" -> TRUE
      [] filter = "properties.status IN ('invalid', 'error')" ->
            Get(properties, "status") \in {S_invalid, S_error}
      [] filter = "properties.status = 'error'" -> Get(properties, "status") = S_error
      [] filter = "properties.decision = 'deny'" -> Get(properties, "decision") = S_deny

OsStr(os) ==
    CASE os = "iOS" -> S_iOS
      [] os = "Android" -> S_Android
      [] OTHER -> Str(<<63>>)

\* the query of get_errors_for_event on a table of ErrorRows:
\* WHERE event = .. AND timestamp >= from AND timestamp < to AND os .. AND (filter)
\* ORDER BY timestamp DESC LIMIT MAX_ERRORS_PER_TYPE
ErrorQuery(table, error_def, date_from, date_to) ==
    LET hits == {r \in table : /\ r.event = error_def.event
                               /\ InScope(r, date_from, date_to)
                               /\ FilterHolds(error_def.filter, r.properties)}
        newest == OrderDesc(hits, "timestamp")
    IN [columns |-> ErrorColumns(error_def),
        results |-> [i \in 1..Min(Len(newest), MAX_ERRORS_PER_TYPE) |->
                        <<OsStr(newest[i].os), newest[i].session_id,
                          Str(<<48 + newest[i].timestamp>>)>>
                        \o [j \in 1..Len(error_def.properties) |->
                               Get(newest[i].properties, error_def.properties[j])]]]

\* for i, col in enumerate(columns): error[col] = row[i]
RowToDict(columns, row) ==
    [col \in Range(columns) |->
        row[CHOOSE i \in 1..Len(columns) :
                /\ columns[i] = col
                /\ \A j \in (i + 1)..Len(columns) : columns[j] # col]]

\* get_errors_for_event after the request: the list of row dicts
get_errors_for_event(error_def, response) ==
    LET result == query_posthog(response)
    IN IF result # None /\ Len(result.results) > 0
       THEN [i \in 1..Len(result.results) |-> RowToDict(result.columns, result.results[i])]
       ELSE <<>>

get_session_replay_url(session_id) ==
    IF ~Truthy(session_id) THEN None
    ELSE Str(<<47, 114, 101, 112, 108, 97, 121, 47>> \o session_id.s)

TruncateAt == 80
Ellipsis == <<46, 46, 46>>

\* format_parts truncating from 80 characters on (>= for >)
RECURSIVE format_parts_off_by_one(_, _)
format_parts_off_by_one(error, props_to_show) ==
    IF props_to_show = <<>> THEN <<>>
    ELSE LET prop  == Head(props_to_show)
             value == Get(error, prop)
             rest  == format_parts_off_by_one(error, Tail(props_to_show))
         IN IF Truthy(value)
            THEN LET value_str == IF Len(value.s) >= TruncateAt
                                  THEN SubSeq(value.s, 1, TruncateAt) \o Ellipsis
                                  ELSE value.s
                 IN <<[prop |-> prop, value_str |-> value_str]>> \o rest
            ELSE rest

RECURSIVE format_parts(_, _)
format_parts(error, props_to_show) ==
    IF props_to_show = <<>> THEN <<>>
    ELSE LET prop  == Head(props_to_show)
             value == Get(error, prop)
             rest  == format_parts(error, Tail(props_to_show))
         IN IF Truthy(value)
            THEN LET value_str == IF Len(value.s) > TruncateAt
                                  THEN SubSeq(value.s, 1, TruncateAt) \o Ellipsis
                                  ELSE value.s
                 IN <<[prop |-> prop, value_str |-> value_str]>> \o rest
            ELSE rest

\* " · ".join(parts) if parts else "No details"; the joined parts stay a sequence
format_error_properties(error, props_to_show) ==
    LET parts == format_parts(error, props_to_show)
    IN IF parts # <<>> THEN [text |-> "joined", parts |-> parts]
       ELSE [text |-> "No details", parts |-> <<>>]

\* DictSet putting a new key first
DictSet_prepend(dict, key, value) ==
    IF \E i \in 1..Len(dict) : dict[i].key = key
    THEN [i \in 1..Len(dict) |-> IF dict[i].key = key THEN [key |-> key, value |-> value] ELSE dict[i]]
    ELSE <<[key |-> key, value |-> value]>> \o dict

\* all_errors[key] = value on an insertion-ordered dict
DictSet(dict, key, value) ==
    IF \E i \in 1..Len(dict) : dict[i].key = key
    THEN [i \in 1..Len(dict) |-> IF dict[i].key = key THEN [key |-> key, value |-> value] ELSE dict[i]]
    ELSE Append(dict, [key |-> key, value |-> value])

\* check_errors, the blocks of one all_errors item
ErrorSection(item) ==
    LET error_def == item.value.definition
        errors    == item.value.errors
    IN <<[type |-> "section", header |-> error_def.name, count |-> Len(errors)]>>
       \o [i \in 1..Len(errors) |->
             [type |-> "context",
              os_emoji |-> IF Get(errors[i], "os") = S_iOS THEN "apple" ELSE "robot",
              props_text |-> format_error_properties(errors[i], error_def.properties),
              replay |-> get_session_replay_url(Get(errors[i], "session_id"))]]
       \o <<[type |-> "divider"]>>

RECURSIVE ErrorSections(_)
ErrorSections(items) ==
    IF items = <<>> THEN <<>> ELSE ErrorSection(Head(items)) \o ErrorSections(Tail(items))

ErrorHeaderText(total) == [text |-> "N errors in last 10 min", n |-> total]

ErrorBlocks(items, total) ==
    <<[type |-> "header", text |-> ErrorHeaderText(total)],
      [type |-> "context", text |-> "window"],
      [type |-> "divider"]>>
    \o ErrorSections(items)
    \o <<[type |-> "context", text |-> "View Error Dashboard"]>>

ErrorTestBlocks ==
    <<[type |-> "section", text |-> "Focused error reporter connected!"],
      [type |-> "divider"],
      [type |-> "section", text |-> "Monitoring these error conditions:"],
      [type |-> "context", text |-> "conditions"],
      [type |-> "divider"],
      [type |-> "section", text |-> "Example error format:"],
      [type |-> "section", text |-> "Provider Availability Error (2)"],
      [type |-> "context", text |-> "example 1"],
      [type |-> "context", text |-> "example 2"],
      [type |-> "divider"],
      [type |-> "context", text |-> "Alerts every 10 mins (only if errors exist)."]>>

(***************************************************************************)
(* error_slack_reporter.py: the run                                        *)
(***************************************************************************)
Echo(msg) == stdout' = Append(stdout, msg)

\* check_config at the top of check_errors and of test_slack
ErrorCheckConfig ==
    /\ script = "error" /\ pc = "start"
    /\ IF error_check_config(env) # <<>>
       THEN /\ Echo("Missing environment variables")
            /\ exit_code' = 1
            /\ pc' = "exited"
            /\ idx' = idx
       ELSE /\ pc' = IF mode = "test" THEN "test" ELSE "collect"
            /\ idx' = 1
            /\ UNCHANGED <<stdout, exit_code>>
    /\ UNCHANGED <<script, mode, env, now, trace, events, all_errors, total_error_count,
                   blocks, metrics, rules, call, ret>>

\* one iteration of `for error_def in ERROR_DEFINITIONS`
ErrorFetchRule ==
    /\ script = "error" /\ pc = "collect" /\ idx <= Len(rules)
    /\ \/ \E status \in FetchStatuses, n \in 0..MaxMatching :
             LET error_def == rules[idx]
                 response  == [status_code |-> status, json |-> BackendErrorJson(error_def, n)]
                 errors    == get_errors_for_event(error_def, response)
             IN /\ trace' = Append(trace, QueryEvent(error_def.event, response))
                /\ stdout' = IF status >= 400 THEN Append(stdout, "PostHog error") ELSE stdout
                /\ IF errors # <<>>
                   THEN /\ all_errors' = DictSet(all_errors, error_def.event,
                                                 [definition |-> error_def, errors |-> errors])
                        /\ total_error_count' = total_error_count + Len(errors)
                   ELSE UNCHANGED <<all_errors, total_error_count>>
                /\ idx' = idx + 1
                /\ UNCHANGED <<pc, exit_code>>
       \/ \E outcome \in FetchOutcomes \ FetchStatuses :
             /\ trace' = Append(trace, FetchEvent(rules[idx].event, TRUE, 0))
             /\ Echo("Traceback")
             /\ exit_code' = 1
             /\ pc' = "exited"
             /\ UNCHANGED <<idx, all_errors, total_error_count>>
    /\ UNCHANGED <<script, mode, env, now, events, blocks, metrics, rules, call, ret>>

\* check_errors after the loop: the early return, or the message and send_slack
ErrorReport ==
    /\ script = "error" /\ pc = "collect" /\ idx > Len(rules)
    /\ IF total_error_count = 0
       THEN /\ Echo("No errors in last 10 minutes")
            /\ UNCHANGED <<trace, blocks>>
       ELSE \E status \in PostStatuses :
               /\ blocks' = ErrorBlocks(all_errors, total_error_count)
               /\ trace' = Append(trace,
                      PostEvent(SlackPayload(blocks', ErrorHeaderText(total_error_count)), status))
               /\ Echo(send_slack_print(status))
    /\ pc' = "exited"
    /\ exit_code' = 0
    /\ UNCHANGED <<script, mode, env, now, events, idx, all_errors, total_error_count,
                   metrics, rules, call, ret>>

\* test_slack after check_config
ErrorTestSlack ==
    /\ script = "error" /\ pc = "test"
    /\ \E status \in PostStatuses :
          /\ blocks' = ErrorTestBlocks
          /\ trace' = Append(trace,
                 PostEvent(SlackPayload(blocks', [text |-> "Test from focused error reporter"]), status))
          /\ Echo(send_slack_print(status))
    /\ pc' = "exited"
    /\ exit_code' = 0
    /\ UNCHANGED <<script, mode, env, now, events, idx, all_errors, total_error_count,
                   metrics, rules, call, ret>>

(***************************************************************************)
(* posthog_to_slack.py                                                     *)
(***************************************************************************)
TilesLimit == 5

\* a tile: without insight, with an insight whose results are fetched, or
\* with an insight whose fetch raises
TileKinds == {"no_insight", "ok", "fetch_error"}
TileLists == UNION {[1..n -> TileKinds] : n \in 0..MaxTiles}

\* for tile in tiles[:5]: the metric lines of build_dashboard_summary
RECURSIVE InsightLines(_)
InsightLines(tiles) ==
    IF tiles = <<>> THEN <<>>
    ELSE (CASE Head(tiles) = "no_insight"  -> <<>>
            [] Head(tiles) = "ok"          -> <<"value">>
            [] Head(tiles) = "fetch_error" -> <<"error fetching">>)
         \o InsightLines(Tail(tiles))

\* the requests fetch_insight_results issues for tiles[:5]
RECURSIVE InsightFetches(_)
InsightFetches(tiles) ==
    IF tiles = <<>> THEN <<>>
    ELSE (IF Head(tiles) = "no_insight" THEN <<>>
          ELSE <<FetchEvent("insight", Head(tiles) = "fetch_error", 0)>>)
         \o InsightFetches(Tail(tiles))

FirstTiles(tiles) == SubSeq(tiles, 1, Min(TilesLimit, Len(tiles)))

\* build_dashboard_summary: the text of the dashboard's section
build_dashboard_summary(dashboard_name, status, tiles) ==
    IF status >= 400
    THEN [dashboard |-> dashboard_name, body |-> "Error", lines |-> <<>>]
    ELSE LET lines == InsightLines(FirstTiles(tiles))
         IN IF lines # <<>>
            THEN [dashboard |-> dashboard_name, body |-> "metrics", lines |-> lines]
            ELSE [dashboard |-> dashboard_name, body |-> "No insights found", lines |-> <<>>]

\* the requests build_dashboard_summary issues
DashboardFetches(dashboard_name, status, tiles) ==
    <<FetchEvent(dashboard_name, status >= 400, 0)>>
    \o (IF status >= 400 THEN <<>> ELSE InsightFetches(FirstTiles(tiles)))

\* main: the validation; an uncaught ValueError ends the process with status 1
DigestValidate ==
    /\ script = "digest" /\ pc = "start"
    /\ IF digest_validate(env) # "ok"
       THEN /\ Echo("ValueError")
            /\ exit_code' = 1
            /\ pc' = "exited"
            /\ UNCHANGED <<idx, blocks>>
       ELSE /\ pc' = "build"
            /\ idx' = 1
            /\ blocks' = <<[type |-> "header", text |-> "Daily PostHog Digest"],
                           [type |-> "divider"]>>
            /\ UNCHANGED <<stdout, exit_code>>
    /\ UNCHANGED <<script, mode, env, now, trace, events, all_errors, total_error_count,
                   metrics, rules, call, ret>>

\* build_slack_message: one iteration of `for dashboard_name, dashboard_info in dashboards.items()`
DigestDashboard ==
    /\ script = "digest" /\ pc = "build" /\ idx <= Len(get_dashboards(env))
    /\ \E status \in FetchStatuses, tiles \in TileLists :
          LET dashboard_name == get_dashboards(env)[idx]
          IN /\ trace' = trace \o DashboardFetches(dashboard_name, status, tiles)
             /\ blocks' = blocks \o
                   <<[type |-> "section",
                      text |-> build_dashboard_summary(dashboard_name, status, tiles)],
                     [type |-> "divider"]>>
    /\ idx' = idx + 1
    /\ UNCHANGED <<script, mode, env, now, pc, exit_code, stdout, events, all_errors,
                   total_error_count, metrics, rules, call, ret>>

\* build_slack_message's footer, then post_to_slack: raise_for_status raises on
\* a status >= 400 and nothing catches it
DigestPost ==
    /\ script = "digest" /\ pc = "build" /\ idx > Len(get_dashboards(env))
    /\ \E status \in PostStatuses :
          /\ blocks' = Append(blocks, [type |-> "context", text |-> "Automated daily digest"])
          /\ trace' = Append(trace, PostEvent([blocks |-> blocks'], status))
          /\ IF status >= 400
             THEN Echo("HTTPError") /\ exit_code' = 1
             ELSE Echo("Posted to Slack successfully") /\ exit_code' = 0
    /\ pc' = "exited"
    /\ UNCHANGED <<script, mode, env, now, events, idx, all_errors, total_error_count,
                   metrics, rules, call, ret>>

(***************************************************************************)
(* The backend's events table and the HogQL queries of                     *)
(* daily_slack_reporter.py.  A row is [event, distinct_id, os, timestamp]. *)
(***************************************************************************)
\* SELECT os, count() ... WHERE event = '{event_name}' ... GROUP BY os ORDER BY count DESC
CountByOsQuery(table, event_name, date_from, date_to) ==
    LET hits == {r \in table : r.event = event_name /\ InScope(r, date_from, date_to)}
    IN OrderDesc({<<os, Cardinality({r \in hits : r.os = os})>> :
                     os \in {r.os : r \in hits}}, 2)

\* SELECT os, count(DISTINCT distinct_id) ... GROUP BY os ORDER BY users DESC
UniqueUsersQuery(table, event_name, date_from, date_to) ==
    LET hits == {r \in table : r.event = event_name /\ InScope(r, date_from, date_to)}
    IN OrderDesc({<<os, Cardinality({r.distinct_id : r \in {h \in hits : h.os = os}})>> :
                     os \in {r.os : r \in hits}}, 2)

\* the rows the inner SELECT of the funnel query groups:
\* event IN (start, end), in the window, on a recognised platform
FunnelRows(table, start_event, end_event, date_from, date_to) ==
    {r \in table : /\ r.event \in {start_event, end_event}
                   /\ InScope(r, date_from, date_to)}

\* FunnelActors without the HAVING clause
FunnelActors_no_having(rows, start_event) ==
    {r.distinct_id : r \in rows}

\* GROUP BY distinct_id HAVING sum(CASE WHEN event = start THEN 1 ELSE 0 END) > 0
FunnelActors(rows, start_event) ==
    {r.distinct_id : r \in {q \in rows : q.event = start_event}}

\* ArgMinOs taken over all the actor's rows whatever their timestamp
ArgMinOs_any_row(rows, actor) ==
    {r.os : r \in {q \in rows : q.distinct_id = actor}}

\* argMin(properties.$os, timestamp): the os of a row of the actor with the
\* least timestamp; which one, when several rows share it, is the backend's choice
ArgMinOs(rows, actor) ==
    LET mine == {r \in rows : r.distinct_id = actor}
    IN {r.os : r \in {q \in mine : \A o \in mine : q.timestamp <= o.timestamp}}

\* the possible start_os columns of the inner SELECT
Attributions(rows, start_event) ==
    {att \in [FunnelActors(rows, start_event) -> Platforms] :
        \A a \in DOMAIN att : att[a] \in ArgMinOs(rows, a)}

\* Completed with an ordering check: an end row not earlier than every row of the actor
Completed_ordered(rows, end_event, actor) ==
    \E r \in rows :
        /\ r.distinct_id = actor /\ r.event = end_event
        /\ \E q \in rows : q.distinct_id = actor /\ q.event # end_event
                             /\ q.timestamp <= r.timestamp

\* max(CASE WHEN event = end THEN 1 ELSE 0 END) = 1
Completed(rows, end_event, actor) ==
    \E r \in rows : r.distinct_id = actor /\ r.event = end_event

\* FunnelQuery counting the end rows of the platform's actors instead of the
\* actors that have one
FunnelQuery_end_rows(rows, end_event, att) ==
    OrderDesc({<<os,
                 Cardinality({a \in DOMAIN att : att[a] = os}),
                 Cardinality({r \in rows : /\ r.event = end_event
                                           /\ r.distinct_id \in DOMAIN att
                                           /\ att[r.distinct_id] = os})>> :
                  os \in {att[a] : a \in DOMAIN att}}, 2)

\* the outer SELECT: start_os, count(), countIf(completed = 1)
\* GROUP BY start_os ORDER BY started DESC
FunnelQuery(rows, end_event, att) ==
    OrderDesc({<<os,
                 Cardinality({a \in DOMAIN att : att[a] = os}),
                 Cardinality({a \in DOMAIN att : att[a] = os /\ Completed(rows, end_event, a)})>> :
                  os \in {att[a] : a \in DOMAIN att}}, 2)

(***************************************************************************)
(* daily_slack_reporter.py: the functions                                  *)
(***************************************************************************)
\* round(x, 1) of x = num / den * 100, in tenths (ties to even)
RoundTenths(num, den) ==
    LET q == (num * 1000) \div den
        r == (num * 1000) % den
    IN IF 2 * r < den THEN q
       ELSE IF 2 * r > den THEN q + 1
       ELSE IF q % 2 = 0 THEN q ELSE q + 1

\* counts = {"iOS": 0, "Android": 0}; counts[row[0]] = row[1] for the rows of a result
RECURSIVE FillCounts(_, _)
FillCounts(counts, results) ==
    IF results = <<>> THEN counts
    ELSE LET row == Head(results)
         IN FillCounts(IF row[1] \in DOMAIN counts
                       THEN [counts EXCEPT ![row[1]] = row[2]]
                       ELSE counts,
                       Tail(results))

\* get_event_count_by_os and get_unique_users_by_os after the request
get_event_count_by_os(response) ==
    LET result == query_posthog(response)
        counts == [os \in Platforms |-> 0]
    IN IF result # None THEN FillCounts(counts, result.results) ELSE counts

\* funnel_rate with an upper clamp at 100 %
funnel_rate_clamped(started, completed) ==
    IF started > 0 THEN Min(1000, RoundTenths(completed, started)) ELSE 0

\* rate = round((completed / started) * 100, 1) if started > 0 else 0
funnel_rate(started, completed) ==
    IF started > 0 THEN RoundTenths(completed, started) ELSE 0

\* FillFunnel without the `if os_name in funnel` test
RECURSIVE FillFunnel_any_platform(_, _)
FillFunnel_any_platform(funnel, results) ==
    IF results = <<>> THEN funnel
    ELSE LET row == Head(results)
             os_name == row[1]
         IN FillFunnel_any_platform(
                [k \in DOMAIN funnel \cup {os_name} |->
                    IF k = os_name
                    THEN [started |-> row[2], completed |-> row[3],
                          rate |-> funnel_rate(row[2], row[3])]
                    ELSE funnel[k]],
                Tail(results))

RECURSIVE FillFunnel(_, _)
FillFunnel(funnel, results) ==
    IF results = <<>> THEN funnel
    ELSE LET row == Head(results)
             os_name == row[1]
         IN FillFunnel(IF os_name \in DOMAIN funnel
                       THEN [funnel EXCEPT ![os_name] =
                               [started |-> row[2], completed |-> row[3],
                                rate |-> funnel_rate(row[2], row[3])]]
                       ELSE funnel,
                       Tail(results))

\* get_real_funnel_conversion after the request
get_real_funnel_conversion(response) ==
    LET result == query_posthog(response)
        funnel == [os \in Platforms |-> [started |-> 0, completed |-> 0, rate |-> 0]]
    IN IF result # None THEN FillFunnel(funnel, result.results) ELSE funnel

\* -x rounded like x
RoundTenthsSigned(num, den) ==
    IF num < 0 THEN 0 - RoundTenths(0 - num, den) ELSE RoundTenths(num, den)

\* fmt_change with `change >= 0` for the rising arrow
fmt_change_ge(current, previous) ==
    IF previous = 0
    THEN (IF current > 0 THEN [emoji |-> "NEW"] ELSE [emoji |-> "dash"])
    ELSE [emoji |-> IF current - previous >= 0 THEN "chart_up" ELSE "chart_down",
          change |-> RoundTenthsSigned(current - previous, previous)]

\* fmt_change: the marker, and for the arrows the change as formatted by
\* {change:+.1f}, in tenths of a percent
fmt_change(current, previous) ==
    IF previous = 0
    THEN (IF current > 0 THEN [emoji |-> "NEW"] ELSE [emoji |-> "dash"])
    ELSE LET change == (current - previous) * 100     \* over `previous`, which is > 0 here
         IN [emoji |-> IF change > 0 THEN "chart_up"
                       ELSE IF change < 0 THEN "chart_down"
                       ELSE "right_arrow",
             change |-> RoundTenthsSigned(current - previous, previous)]

\* other_buy without the floor at zero
other_buy_unfloored(buy, buy_funnel, deeplink_funnel) ==
    buy["iOS"] + buy["Android"]
    - (buy_funnel["iOS"].completed + buy_funnel["Android"].completed)
    - (deeplink_funnel["iOS"].completed + deeplink_funnel["Android"].completed)

\* generate_daily_report, CALCULATIONS
other_buy(buy, buy_funnel, deeplink_funnel) ==
    LET total_buy    == buy["iOS"] + buy["Android"]
        standard_buy == buy_funnel["iOS"].completed + buy_funnel["Android"].completed
        deeplink_buy == deeplink_funnel["iOS"].completed + deeplink_funnel["Android"].completed
        other        == total_buy - standard_buy - deeplink_buy
    IN IF other < 0 THEN 0 ELSE other

\* get_unique_users_by_os after the request: the same loop as get_event_count_by_os
get_unique_users_by_os(response) ==
    LET result == query_posthog(response)
        counts == [os \in Platforms |-> 0]
    IN IF result # None THEN FillCounts(counts, result.results) ELSE counts

\* fmt_funnel: "—" when nothing started, else rate% (started→completed)
fmt_funnel(funnel, os) ==
    LET f == funnel[os]
    IN IF f.started = 0 THEN [text |-> "dash"]
       ELSE [text |-> "rate", rate |-> f.rate, started |-> f.started, completed |-> f.completed]

(***************************************************************************)
(* daily_slack_reporter.py: the run                                        *)
(***************************************************************************)
\* time: two ticks a day; the date string of day d compares as its midnight
DayOf(t) == t \div 2
Midnight(d) == d * 2

\* the requests of generate_daily_report, in program order (the last four are
\* the loop of get_error_summary); "cur" is [yesterday, today), "prev" is
\* [day_before, yesterday)
DailyFetches == <<
    [name |-> "dau",             kind |-> "users",  event |-> "app_launched",                    window |-> "cur"],
    [name |-> "dau_prev",        kind |-> "users",  event |-> "app_launched",                    window |-> "prev"],
    [name |-> "buy",             kind |-> "count",  event |-> "buy_payment_state_changed",       window |-> "cur"],
    [name |-> "buy_prev",        kind |-> "count",  event |-> "buy_payment_state_changed",       window |-> "prev"],
    [name |-> "buy_funnel",      kind |-> "funnel", event |-> "buy_form_viewed",                 window |-> "cur"],
    [name |-> "deeplink_funnel", kind |-> "funnel", event |-> "deeplink_intent_viewed",          window |-> "cur"],
    [name |-> "onboard",         kind |-> "count",  event |-> "auth_session_ready",              window |-> "cur"],
    [name |-> "onboard_prev",    kind |-> "count",  event |-> "auth_session_ready",              window |-> "prev"],
    [name |-> "onboard_funnel",  kind |-> "funnel", event |-> "auth_login_screen_viewed",        window |-> "cur"],
    [name |-> "App Errors",      kind |-> "count",  event |-> "app_error_captured",              window |-> "cur"],
    [name |-> "Exceptions",      kind |-> "count",  event |-> "$exception",                      window |-> "cur"],
    [name |-> "Payment Errors",  kind |-> "count",  event |-> "buy_provider_availability_error", window |-> "cur"],
    [name |-> "Rage Clicks",     kind |-> "count",  event |-> "$rageclick",                      window |-> "cur"] >>

\* the end event of the funnel that starts with the event
FunnelEnd(start_event) ==
    IF start_event = "auth_login_screen_viewed" THEN "auth_session_ready"
    ELSE "buy_payment_state_changed"

ErrorSummaryNames == <<"App Errors", "Exceptions", "Payment Errors", "Rage Clicks">>

\* date_from, date_to of a request, from today = utcnow().date()
WindowOf(window, today) ==
    IF window = "cur" THEN <<Midnight(today - 1), Midnight(today)>>
    ELSE <<Midnight(today - 2), Midnight(today - 1)>>

\* get_error_summary without the `if total > 0` test
RECURSIVE get_error_summary_unfiltered(_, _)
get_error_summary_unfiltered(m, names) ==
    IF names = <<>> THEN <<>>
    ELSE LET counts == m[Head(names)]
         IN <<[name |-> Head(names), iOS |-> counts["iOS"], Android |-> counts["Android"],
               total |-> counts["iOS"] + counts["Android"]]>>
            \o get_error_summary_unfiltered(m, Tail(names))

\* get_error_summary: the entries with total > 0, in the order of error_events
RECURSIVE get_error_summary(_, _)
get_error_summary(m, names) ==
    IF names = <<>> THEN <<>>
    ELSE LET counts == m[Head(names)]
             total  == counts["iOS"] + counts["Android"]
             rest   == get_error_summary(m, Tail(names))
         IN IF total > 0
            THEN <<[name |-> Head(names), iOS |-> counts["iOS"],
                    Android |-> counts["Android"], total |-> total]>> \o rest
            ELSE rest

\* a "• iOS: n change" pair of a count section
CountLine(cur, prev, os) == [n |-> cur[os], change |-> fmt_change(cur[os], prev[os])]

\* generate_daily_report, BUILD SLACK MESSAGE
DailyBlocks(m) ==
    LET total_buy      == m["buy"]["iOS"] + m["buy"]["Android"]
        total_buy_prev == m["buy_prev"]["iOS"] + m["buy_prev"]["Android"]
        standard_buy   == m["buy_funnel"]["iOS"].completed + m["buy_funnel"]["Android"].completed
        deeplink_buy   == m["deeplink_funnel"]["iOS"].completed
                          + m["deeplink_funnel"]["Android"].completed
        errors         == get_error_summary(m, ErrorSummaryNames)
    IN <<[type |-> "header", text |-> "Daily Mobile Stats"],
         [type |-> "divider"],
         [type |-> "section", title |-> "Daily Active Users",
          iOS |-> CountLine(m["dau"], m["dau_prev"], "iOS"),
          Android |-> CountLine(m["dau"], m["dau_prev"], "Android"),
          total |-> [n |-> m["dau"]["iOS"] + m["dau"]["Android"]]],
         [type |-> "divider"],
         [type |-> "section", title |-> "Buy Completions",
          iOS |-> CountLine(m["buy"], m["buy_prev"], "iOS"),
          Android |-> CountLine(m["buy"], m["buy_prev"], "Android"),
          total |-> [n |-> total_buy, change |-> fmt_change(total_buy, total_buy_prev)]],
         [type |-> "context", title |-> "Standard Flow / Deeplink Flow",
          standard |-> [os \in Platforms |-> fmt_funnel(m["buy_funnel"], os)],
          deeplink |-> [os \in Platforms |-> fmt_funnel(m["deeplink_funnel"], os)],
          standard_buy |-> standard_buy, deeplink_buy |-> deeplink_buy,
          other_buy |-> other_buy(m["buy"], m["buy_funnel"], m["deeplink_funnel"])],
         [type |-> "divider"],
         [type |-> "section", title |-> "Onboarding Completions",
          iOS |-> CountLine(m["onboard"], m["onboard_prev"], "iOS"),
          Android |-> CountLine(m["onboard"], m["onboard_prev"], "Android"),
          total |-> [n |-> m["onboard"]["iOS"] + m["onboard"]["Android"]]],
         [type |-> "context", title |-> "Funnel Conversion",
          funnel |-> [os \in Platforms |-> fmt_funnel(m["onboard_funnel"], os)]],
         [type |-> "divider"],
         IF errors # <<>>
         THEN [type |-> "section", title |-> "Yesterday's Issues", lines |-> errors]
         ELSE [type |-> "section", title |-> "No errors yesterday!"],
         [type |-> "divider"],
         [type |-> "context", title |-> "links"]>>

DailyTestBlocks == <<[type |-> "section", text |-> "Daily reporter connected!"]>>

\* check_config at the top of generate_daily_report and of test_slack
DailyCheckConfig ==
    /\ script = "daily" /\ pc = "start"
    /\ IF daily_check_config(env) # <<>>
       THEN /\ Echo("Missing environment variables")
            /\ exit_code' = 1
            /\ pc' = "exited"
            /\ idx' = idx
       ELSE /\ pc' = IF mode = "test" THEN "test" ELSE "fetch"
            /\ idx' = 1
            /\ UNCHANGED <<stdout, exit_code>>
    /\ UNCHANGED <<script, mode, env, now, trace, events, all_errors, total_error_count,
                   blocks, metrics, rules, call, ret>>

\* the next request of generate_daily_report and the function that issues it
DailyFetch ==
    /\ script = "daily" /\ pc = "fetch" /\ idx <= Len(DailyFetches)
    /\ LET f    == DailyFetches[idx]
           win  == WindowOf(f.window, DayOf(now))
           rows == FunnelRows(events, f.event, FunnelEnd(f.event), win[1], win[2])
       IN \/ \E status \in FetchStatuses,
                att \in IF f.kind = "funnel" THEN Attributions(rows, f.event) ELSE {<<>>} :
             LET results ==
                     CASE f.kind = "count"  -> CountByOsQuery(events, f.event, win[1], win[2])
                       [] f.kind = "users"  -> UniqueUsersQuery(events, f.event, win[1], win[2])
                       [] f.kind = "funnel" -> FunnelQuery(rows, FunnelEnd(f.event), att)
                 response == [status_code |-> status, json |-> [results |-> results]]
                 value ==
                     CASE f.kind = "count"  -> get_event_count_by_os(response)
                       [] f.kind = "users"  -> get_unique_users_by_os(response)
                       [] f.kind = "funnel" -> get_real_funnel_conversion(response)
             IN /\ trace' = Append(trace, QueryEvent(f.name, response))
                /\ stdout' = IF status >= 400 THEN Append(stdout, "PostHog error") ELSE stdout
                /\ metrics' = [n \in DOMAIN metrics \cup {f.name} |->
                                  IF n = f.name THEN value ELSE metrics[n]]
                /\ idx' = idx + 1
                /\ UNCHANGED <<pc, exit_code>>
          \/ \E outcome \in FetchOutcomes \ FetchStatuses :
                /\ trace' = Append(trace, FetchEvent(f.name, TRUE, 0))
                /\ Echo("Traceback")
                /\ exit_code' = 1
                /\ pc' = "exited"
                /\ UNCHANGED <<idx, metrics>>
    /\ UNCHANGED <<script, mode, env, now, events, all_errors,
                   total_error_count, blocks, rules, call, ret>>

\* generate_daily_report after the requests: calculations, blocks, send_slack
DailyReport ==
    /\ script = "daily" /\ pc = "fetch" /\ idx > Len(DailyFetches)
    /\ \E status \in PostStatuses :
          /\ blocks' = DailyBlocks(metrics)
          /\ trace' = Append(trace,
                 PostEvent(SlackPayload(blocks', [text |-> "Daily Mobile Stats",
                                                  day |-> DayOf(now) - 1]), status))
          /\ Echo(send_slack_print(status))
    /\ pc' = "exited"
    /\ exit_code' = 0
    /\ UNCHANGED <<script, mode, env, now, events, idx, all_errors, total_error_count,
                   metrics, rules, call, ret>>

\* test_slack after check_config
DailyTestSlack ==
    /\ script = "daily" /\ pc = "test"
    /\ \E status \in PostStatuses :
          /\ blocks' = DailyTestBlocks
          /\ trace' = Append(trace,
                 PostEvent(SlackPayload(blocks', [text |-> "Test from daily reporter"]), status))
          /\ Echo(send_slack_print(status))
    /\ pc' = "exited"
    /\ exit_code' = 0
    /\ UNCHANGED <<script, mode, env, now, events, idx, all_errors, total_error_count,
                   metrics, rules, call, ret>>

(***************************************************************************)
(* The runs of the three scripts                                           *)
(***************************************************************************)
\* events of the days before today = day 3: day-before-yesterday is [2, 4),
\* yesterday is [4, 6); one row sits on each boundary
ActivityRows ==
    {Row("app_launched", "A", "iOS", 5), Row("app_launched", "B", "Android", 3),
     Row("auth_login_screen_viewed", "B", "Android", 4),
     Row("auth_session_ready", "B", "Android", 5)}
BuyRows ==
    {Row("buy_form_viewed", "A", "iOS", 4), Row("deeplink_intent_viewed", "A", "iOS", 4),
     Row("buy_payment_state_changed", "A", "iOS", 5),
     Row("buy_payment_state_changed", "B", "Android", 2)}
IssueRows ==
    {Row("app_error_captured", "A", "iOS", 5), Row("$rageclick", "B", "Android", 6)}

DailyLogs == {UNION G : G \in SUBSET {ActivityRows, BuyRows, IssueRows}}

InitRun ==
    /\ mode \in {"normal", "test"}
    /\ pc = "start" /\ exit_code = -1 /\ trace = <<>> /\ stdout = <<>> /\ idx = 0
    /\ all_errors = <<>> /\ total_error_count = 0 /\ blocks = <<>> /\ metrics = <<>>
    /\ now = 7
    /\ call = [fn |-> "none"] /\ ret = Pending

InitDaily ==
    /\ script = "daily" /\ InitRun
    /\ env \in SUBSET DailyEnvVars
    /\ events \in DailyLogs
    /\ rules = <<>>

InitError ==
    /\ script = "error" /\ InitRun
    /\ env \in SUBSET ErrorEnvVars
    /\ events = {}
    /\ rules = ERROR_DEFINITIONS

\* a second rule on the event of the OTP rule, with another filter
OtpInvalidRule ==
    [event |-> "auth_otp_result", name |-> "OTP Invalid",
     filter |-> "properties.status = 'invalid'", properties |-> <<"status">>]

\* rule lists check_errors can be given: the script's own, and lists in which
\* two rules share an event name
RuleLists ==
    {ERROR_DEFINITIONS,
     <<ERROR_DEFINITIONS_TABLE[2], OtpInvalidRule>>,
     <<ERROR_DEFINITIONS_TABLE[1], ERROR_DEFINITIONS_TABLE[2], OtpInvalidRule>>}

InitErrorRules ==
    /\ script = "error" /\ InitRun
    /\ env \in SUBSET ErrorEnvVars
    /\ events = {}
    /\ rules \in RuleLists

\* posthog_to_slack.py takes no arguments
InitDigest ==
    /\ script = "digest" /\ InitRun /\ mode = "normal"
    /\ env \in SUBSET DigestEnvVars
    /\ events = {}
    /\ rules = <<>>

NextDaily == DailyCheckConfig \/ DailyFetch \/ DailyReport \/ DailyTestSlack
NextError == ErrorCheckConfig \/ ErrorFetchRule \/ ErrorReport \/ ErrorTestSlack
NextDigest == DigestValidate \/ DigestDashboard \/ DigestPost

Init == InitDaily \/ InitError \/ InitDigest
Next == NextDaily \/ NextError \/ NextDigest

Spec == Init /\ [][Next]_vars
SpecDaily == InitDaily /\ [][NextDaily]_vars
SpecError == InitError /\ [][NextError]_vars
SpecDigest == InitDigest /\ [][NextDigest]_vars
SpecErrorRules == InitErrorRules /\ [][NextError]_vars

(***************************************************************************)
(* Function specifications: the initial states enumerate a call's inputs,  *)
(* the one action performs the call.                                       *)
(***************************************************************************)
RunIdle ==
    /\ script = "none" /\ mode = "normal" /\ env = {} /\ now = 0 /\ pc = "call"
    /\ exit_code = -1 /\ trace = <<>> /\ stdout = <<>> /\ idx = 0
    /\ all_errors = <<>> /\ total_error_count = 0 /\ blocks = <<>>
    /\ metrics = <<>> /\ rules = <<>> /\ ret = Pending

unchangedRun == <<script, mode, env, now, exit_code, stdout, idx, all_errors,
                  total_error_count, blocks, metrics, rules, events, call>>

RECURSIVE SubsetsUpTo(_, _)
SubsetsUpTo(U, k) ==
    IF k = 0 THEN {{}}
    ELSE LET smaller == SubsetsUpTo(U, k - 1)
         IN smaller \cup {s \cup {x} : s \in smaller, x \in U}

\* --- get_real_funnel_conversion against an events table ---
\* the window is [1, 3); rows of three actors inside it on the two platforms,
\* and rows the WHERE clause must drop
FunnelCoreRows ==
    {Row(e, a, o, t) : e \in {"buy_form_viewed", "buy_payment_state_changed"},
                       a \in {"A", "B", "C"}, o \in Platforms, t \in {1, 2}}

FunnelNoiseRows ==
    {Row("buy_form_viewed", "A", "Windows", 1),
     Row("buy_payment_state_changed", "C", "Windows", 2),
     Row("buy_form_viewed", "B", "iOS", 0),
     Row("buy_payment_state_changed", "B", "iOS", 3),
     Row("buy_payment_state_changed", "A", "Android", 0),
     Row("app_launched", "C", "iOS", 1)}

\* every actor of A..D with or without a start row and an end row, all rows on
\* one platform at one time
SinglePlatformLogs ==
    {{Row(x[2], x[1], o, 1) : x \in S} :
        S \in SUBSET ({"A", "B", "C", "D"} \X {"buy_form_viewed", "buy_payment_state_changed"}),
        o \in Platforms}

InitFunnel ==
    /\ RunIdle
    /\ events \in SubsetsUpTo(FunnelCoreRows \cup FunnelNoiseRows, MaxRows) \cup SinglePlatformLogs
    /\ call = [fn |-> "get_real_funnel_conversion",
               start_event |-> "buy_form_viewed", end_event |-> "buy_payment_state_changed",
               date_from |-> 1, date_to |-> 3]

CallFunnel ==
    /\ call.fn = "get_real_funnel_conversion" /\ pc = "call"
    /\ LET rows == FunnelRows(events, call.start_event, call.end_event,
                              call.date_from, call.date_to)
       IN \E status \in FetchStatuses, att \in Attributions(rows, call.start_event) :
             LET response == [status_code |-> status,
                              json |-> [results |-> FunnelQuery(rows, call.end_event, att)]]
             IN /\ trace' = Append(trace, QueryEvent("funnel", response))
                /\ ret' = get_real_funnel_conversion(response)
    /\ pc' = "returned"
    /\ UNCHANGED unchangedRun

SpecFunnel == InitFunnel /\ [][CallFunnel]_vars

\* --- get_real_funnel_conversion on the rows of an answer ---
ResultRowLists ==
    {<<>>}
    \cup {<<<<o, st, co>>>> : o \in Platforms \cup {"Windows"}, st \in 0..MaxCount, co \in 0..MaxCount}
    \cup {<<<<o1, s1, c1>>, <<o2, s2, c2>>>> :
            o1 \in Platforms \cup {"Windows"}, o2 \in Platforms \cup {"Windows"},
            s1 \in 1..MaxCount, c1 \in {0, MaxCount}, s2 \in {0, MaxCount}, c2 \in 0..1}

InitFunnelRows ==
    /\ RunIdle /\ events = {}
    /\ call \in {[fn |-> "get_real_funnel_conversion.rows", results |-> rs] : rs \in ResultRowLists}

CallFunnelRows ==
    /\ call.fn = "get_real_funnel_conversion.rows" /\ pc = "call"
    /\ \E status \in FetchStatuses :
          LET response == [status_code |-> status, json |-> [results |-> call.results]]
          IN /\ trace' = Append(trace, QueryEvent("funnel", response))
             /\ ret' = get_real_funnel_conversion(response)
    /\ pc' = "returned"
    /\ UNCHANGED unchangedRun

SpecFunnelRows == InitFunnelRows /\ [][CallFunnelRows]_vars

\* --- fmt_change ---
InitFmtChange ==
    /\ RunIdle /\ events = {}
    /\ call \in {[fn |-> "fmt_change", current |-> c, previous |-> p] :
                    c \in 0..MaxMetric, p \in 0..MaxMetric}

CallFmtChange ==
    /\ call.fn = "fmt_change" /\ pc = "call"
    /\ ret' = fmt_change(call.current, call.previous)
    /\ pc' = "returned"
    /\ UNCHANGED <<unchangedRun, trace>>

SpecFmtChange == InitFmtChange /\ [][CallFmtChange]_vars

\* --- the "other buys" reconciliation of generate_daily_report ---
FunnelWith(completed) ==
    [os \in Platforms |-> [started |-> completed[os], completed |-> completed[os],
                           rate |-> funnel_rate(completed[os], completed[os])]]

InitOtherBuy ==
    /\ RunIdle /\ events = {}
    /\ call \in {[fn |-> "other_buy", buy |-> b, buy_funnel |-> FunnelWith(s),
                  deeplink_funnel |-> FunnelWith(d)] :
                    b \in [Platforms -> 0..MaxBuy], s \in [Platforms -> 0..MaxBuy],
                    d \in [Platforms -> 0..MaxBuy]}

CallOtherBuy ==
    /\ call.fn = "other_buy" /\ pc = "call"
    /\ ret' = other_buy(call.buy, call.buy_funnel, call.deeplink_funnel)
    /\ pc' = "returned"
    /\ UNCHANGED <<unchangedRun, trace>>

SpecOtherBuy == InitOtherBuy /\ [][CallOtherBuy]_vars

\* --- format_error_properties ---
FormatPropLists ==
    Range([i \in 1..Len(ERROR_DEFINITIONS_TABLE) |-> ERROR_DEFINITIONS_TABLE[i].properties])
    \cup {<<"state", "error", "provider">>}

FormatValues ==
    {None, Str(<<>>)}
    \cup {Str(Text(n)) : n \in {1, TruncateAt - 1, TruncateAt, TruncateAt + 1, MaxValueLen}}

\* a row dict: the fixed columns and a value for every selected property
FormatRows(props) ==
    {[col \in {"os", "session_id", "timestamp"} \cup Range(props) |->
         IF col \in Range(props) THEN v[col]
         ELSE IF col = "os" THEN S_iOS ELSE None] :
        v \in [Range(props) -> FormatValues]}

InitFormat ==
    /\ RunIdle /\ events = {}
    /\ call \in UNION {{[fn |-> "format_error_properties", error |-> e, props_to_show |-> props] :
                           e \in FormatRows(props)} : props \in FormatPropLists}

CallFormat ==
    /\ call.fn = "format_error_properties" /\ pc = "call"
    /\ ret' = format_error_properties(call.error, call.props_to_show)
    /\ pc' = "returned"
    /\ UNCHANGED <<unchangedRun, trace>>

SpecFormat == InitFormat /\ [][CallFormat]_vars

\* --- the windows of the fetches ---
\* the daily report runs on day 3: the previous period is [2, 4), the current
\* [4, 6); the error reporter runs at tick 6 or 7: its window is [4, 6) or [5, 7)
WindowDailyRows ==
    {Row("buy_payment_state_changed", "A", "iOS", t) : t \in 1..6}
    \cup {Row("buy_payment_state_changed", "B", "Android", t) : t \in {4, 6}}
    \cup {Row("app_launched", "A", "iOS", t) : t \in {2, 4, 6}}
    \cup {Row("app_launched", "A", "Android", 4), Row("app_launched", "B", "Windows", 5)}
    \cup {Row("buy_form_viewed", "A", "iOS", t) : t \in {3, 4, 6}}

WindowErrorRows ==
    {ErrorRow("auth_logout_failed", "A", "iOS", t, None, [error |-> S_error]) : t \in 3..7}
    \cup {ErrorRow("auth_otp_result", "B", "Android", t, Str(<<115>>), [status |-> st]) :
             t \in {4, 6}, st \in {S_error, S_invalid}}

WindowCalls ==
    {[fn |-> "generate_daily_report.periods", kind |-> "count",
      event |-> "buy_payment_state_changed"],
     [fn |-> "generate_daily_report.periods", kind |-> "users", event |-> "app_launched"],
     [fn |-> "generate_daily_report.periods", kind |-> "funnel", event |-> "buy_form_viewed"]}
    \cup {[fn |-> "check_errors.fetch", error_def |-> ERROR_DEFINITIONS_TABLE[i]] : i \in {2, 4}}

InitWindow ==
    /\ script = "none" /\ mode = "normal" /\ env = {} /\ pc = "call"
    /\ exit_code = -1 /\ trace = <<>> /\ stdout = <<>> /\ idx = 0
    /\ all_errors = <<>> /\ total_error_count = 0 /\ blocks = <<>>
    /\ metrics = <<>> /\ rules = <<>> /\ ret = Pending
    /\ now \in {6, 7}
    /\ events \in SubsetsUpTo(WindowDailyRows \cup WindowErrorRows, MaxWindowRows)
    /\ call \in WindowCalls

\* generate_daily_report: the dates, then the fetch of one metric for the
\* current period and, for a count, for the previous period
CallPeriods ==
    /\ call.fn = "generate_daily_report.periods" /\ pc = "call"
    /\ LET cur  == WindowOf("cur", DayOf(now))
           prev == WindowOf("prev", DayOf(now))
           answer(win) ==
               CASE call.kind = "count" ->
                      get_event_count_by_os(
                          [status_code |-> 200,
                           json |-> [results |-> CountByOsQuery(events, call.event, win[1], win[2])]])
                 [] call.kind = "users" ->
                      get_unique_users_by_os(
                          [status_code |-> 200,
                           json |-> [results |-> UniqueUsersQuery(events, call.event, win[1], win[2])]])
       IN IF call.kind = "funnel"
          THEN LET rows == FunnelRows(events, call.event, FunnelEnd(call.event), cur[1], cur[2])
               IN \E att \in Attributions(rows, call.event) :
                     ret' = [cur |-> get_real_funnel_conversion(
                                [status_code |-> 200,
                                 json |-> [results |-> FunnelQuery(rows, FunnelEnd(call.event), att)]])]
          ELSE ret' = [cur |-> answer(cur), prev |-> answer(prev)]
    /\ pc' = "returned"
    /\ UNCHANGED <<unchangedRun, trace>>

\* check_errors: the window, then get_errors_for_event for one rule
CallErrorFetch ==
    /\ call.fn = "check_errors.fetch" /\ pc = "call"
    /\ LET win == ErrorWindow(now)
       IN ret' = get_errors_for_event(call.error_def,
                    [status_code |-> 200,
                     json |-> ErrorQuery(events, call.error_def, win[1], win[2])])
    /\ pc' = "returned"
    /\ UNCHANGED <<unchangedRun, trace>>

SpecWindow == InitWindow /\ [][CallPeriods \/ CallErrorFetch]_vars

(***************************************************************************)
(* Properties                                                              *)
(***************************************************************************)
Abs(x) == IF x < 0 THEN 0 - x ELSE x

Returned == pc = "returned"

\* C3: for every platform of a funnel result, rate is completed / started * 100
\* rounded to one decimal when started > 0 and 0 when started = 0; it is never
\* negative, and it is not clamped: it exceeds 100 whenever completed > started.
C3_Rate ==
    Returned =>
        \A os \in DOMAIN ret :
            LET f == ret[os]
            IN /\ f.started > 0 =>
                    2 * Abs(f.rate * f.started - 1000 * f.completed) <= f.started
               /\ f.started = 0 => f.rate = 0
               /\ f.rate >= 0
               /\ (f.started > 0 /\ f.completed > f.started) => f.rate > 1000

C3_Witness ==
    /\ Returned
    /\ ret["iOS"] = [started |-> 3, completed |-> 2, rate |-> 667]
    /\ ret["Android"].started = 0 /\ ret["Android"].rate = 0

\* the rows of the events table the funnel call looks at: in [date_from, date_to)
\* on iOS or Android
Scoped(event_name) ==
    {r \in events : /\ r.event = event_name
                    /\ call.date_from <= r.timestamp /\ r.timestamp < call.date_to
                    /\ r.os \in {"iOS", "Android"}}
StartActors == {r.distinct_id : r \in Scoped(call.start_event)}
EndActors   == {r.distinct_id : r \in Scoped(call.end_event)}

FunnelAnswered == Returned /\ ~trace[1].failed

TotalStarted   == ret["iOS"].started + ret["Android"].started
TotalCompleted == ret["iOS"].completed + ret["Android"].completed

\* C4: an actor with an end-event row but no start-event row is counted in
\* neither started nor completed: completed counts exactly the actors with a
\* start-event row and an end-event row, started the actors with a start-event
\* row; start actors {A,B,C} and end actors {B,C,D} on iOS give 3, 2, 66.7.
C4_EndOnlyExcluded ==
    FunnelAnswered =>
        /\ TotalCompleted = Cardinality(StartActors \cap EndActors)
        /\ TotalStarted = Cardinality(StartActors)
        /\ (/\ StartActors = {"A", "B", "C"} /\ EndActors = {"B", "C", "D"}
            /\ \A r \in events : r.os = "iOS")
           => /\ ret["iOS"] = [started |-> 3, completed |-> 2, rate |-> 667]
              /\ ret["Android"] = [started |-> 0, completed |-> 0, rate |-> 0]

C4_Witness ==
    /\ FunnelAnswered
    /\ StartActors = {"A", "B", "C"} /\ EndActors = {"B", "C", "D"}
    /\ \A r \in events : r.os = "iOS"
    /\ ret["iOS"].started = 3 /\ ret["iOS"].completed = 2

\* actors with a start row and an end row whose end row is earlier than, at the
\* same time as, later than a start row of theirs
EndRelated(rel(_, _)) ==
    {a \in StartActors \cap EndActors :
        \E st \in Scoped(call.start_event), en \in Scoped(call.end_event) :
            st.distinct_id = a /\ en.distinct_id = a /\ rel(en.timestamp, st.timestamp)}
EndEarlier == EndRelated(LAMBDA e, t : e < t)
EndSame    == EndRelated(LAMBDA e, t : e = t)
EndLater   == EndRelated(LAMBDA e, t : e > t)

\* C5: no temporal-ordering check: the actors counted as completed are those
\* with a start row and an end row in the window, whether the end row is
\* earlier than, simultaneous with or later than the start row.
C5_NoOrdering ==
    FunnelAnswered =>
        /\ TotalCompleted = Cardinality(EndEarlier \cup EndSame \cup EndLater)
        /\ TotalCompleted >= Cardinality(EndEarlier \ (EndSame \cup EndLater))

\* an actor whose only end row precedes their only start row is counted
C5_Witness ==
    /\ FunnelAnswered
    /\ EndEarlier = {"A"} /\ EndSame = {} /\ EndLater = {}
    /\ TotalCompleted = 1 /\ TotalStarted = 1

\* C6: other = max(0, total - sum of the funnels' completed): total - sum when
\* total >= sum, 0 when total < sum, never negative.
C6_OtherBuy ==
    Returned =>
        LET total == call.buy["iOS"] + call.buy["Android"]
            sum   == call.buy_funnel["iOS"].completed + call.buy_funnel["Android"].completed
                     + call.deeplink_funnel["iOS"].completed
                     + call.deeplink_funnel["Android"].completed
        IN /\ total >= sum => ret = total - sum
           /\ total < sum => ret = 0
           /\ ret >= 0

\* the funnels' completions exceed the total and the result is floored
C6_Witness ==
    /\ Returned
    /\ call.buy["iOS"] + call.buy["Android"] = 1
    /\ call.buy_funnel["iOS"].completed = 1 /\ call.deeplink_funnel["iOS"].completed = 1
    /\ ret = 0

\* C7: previous = 0, current = 0 gives the flat/none marker; previous = 0,
\* current > 0 gives New; otherwise the trend is Up, Down or Flat as
\* (current - previous) / previous * 100 is > 0, < 0 or = 0, and the change
\* shown is that value to one decimal (10 -> 15: +50.0 Up; 10 -> 5: -50.0 Down).
C7_Delta ==
    Returned =>
        LET c == call.current
            p == call.previous
        IN /\ (p = 0 /\ c = 0) => ret = [emoji |-> "dash"]
           /\ (p = 0 /\ c > 0) => ret = [emoji |-> "NEW"]
           /\ p > 0 =>
                /\ ret.emoji = "chart_up" <=> c > p
                /\ ret.emoji = "chart_down" <=> c < p
                /\ ret.emoji = "right_arrow" <=> c = p
                /\ 2 * Abs(ret.change * p - 1000 * (c - p)) <= p
           /\ (p = 10 /\ c = 15) => ret = [emoji |-> "chart_up", change |-> 500]
           /\ (p = 10 /\ c = 5) => ret = [emoji |-> "chart_down", change |-> 0 - 500]

C7_Witness ==
    /\ Returned
    /\ call.previous = 10 /\ call.current = 10
    /\ ret = [emoji |-> "right_arrow", change |-> 0]

\* the requests to the analytics backend issued so far
Fetched == SelectSeq(trace, LAMBDA e : e.op = "fetch")
Posted  == SelectSeq(trace, LAMBDA e : e.op = "post")

\* a block that marks the named rule, count or funnel as unavailable
Degraded(what) ==
    \E i \in 1..Len(blocks) :
        "unavailable" \in DOMAIN blocks[i] /\ what \in blocks[i].unavailable

ReportedNoErrors ==
    \/ "No errors in last 10 minutes" \in Range(stdout)
    \/ \E i \in 1..Len(blocks) :
          "title" \in DOMAIN blocks[i] /\ blocks[i].title = "No errors yesterday!"

\* C1: in the two reporters a fetch that failed is treated distinctly from a
\* fetch with zero rows: once the run is over, the section of every failed
\* fetch is marked degraded, and a run whose error fetches all failed is not
\* reported as "no errors".
C1_FailureDistinct ==
    (script \in {"daily", "error"} /\ mode = "normal" /\ pc = "exited" /\ exit_code = 0) =>
        /\ \A i \in 1..Len(Fetched) : Fetched[i].failed => Degraded(Fetched[i].what)
        /\ (\A i \in 1..Len(Fetched) :
               Fetched[i].what \in Range(ErrorSummaryNames)
                                   \cup {rules[k].event : k \in 1..Len(rules)}
               => Fetched[i].failed)
           => ~ReportedNoErrors

\* a required setting of the script is absent
ConfigIncomplete ==
    CASE script = "daily"  -> ~(DailyEnvVars \subseteq env)
      [] script = "error"  -> ~(ErrorEnvVars \subseteq env)
      [] script = "digest" ->
            \/ ~({"POSTHOG_API_KEY", "POSTHOG_PROJECT_ID", "SLACK_WEBHOOK_URL"} \subseteq env)
            \/ env \cap Range(DashboardVars) = {}
      [] OTHER -> FALSE

\* C2: with a required configuration value absent, a run of any script in any
\* mode issues no fetch and no post, goes from its start straight to its exit,
\* and exits with status 1.
C2_ConfigAbort ==
    ConfigIncomplete =>
        /\ trace = <<>>
        /\ blocks = <<>>
        /\ pc \in {"start", "exited"}
        /\ pc = "exited" => exit_code = 1
        /\ pc = "start" => exit_code = -1

C2_Witness ==
    /\ ConfigIncomplete /\ mode = "test" /\ "POSTHOG_API_KEY" \in env
    /\ pc = "exited" /\ exit_code = 1 /\ trace = <<>>

ErrorRunOver == script = "error" /\ mode = "normal" /\ pc = "exited" /\ exit_code = 0

Sections == SelectSeq(blocks, LAMBDA b : b.type = "section")

\* the rules whose fetch brought at least one row, in rule order
RulesHit == SelectSeq([i \in 1..Len(rules) |-> i], LAMBDA i : Fetched[i].rows > 0)

\* C8: in the error report a rule whose fetch returned zero rows has no
\* section, every rule with at least one row has exactly one section (showing
\* its row count), and the sections are in rule-list order.
C8_Sections ==
    ErrorRunOver =>
        /\ Len(Sections) = Len(RulesHit)
        /\ \A k \in 1..Len(Sections) :
              /\ Sections[k].header = rules[RulesHit[k]].name
              /\ Sections[k].count = Fetched[RulesHit[k]].rows

\* the second rule has no row, the first and the third have some
C8_Witness ==
    /\ ErrorRunOver
    /\ Fetched[1].rows > 0 /\ Fetched[2].rows = 0 /\ ~Fetched[2].failed /\ Fetched[3].rows > 0
    /\ Len(Sections) = 2
    /\ Sections[1].header = "Invite Code Error" /\ Sections[2].header = "Consent Denied"

\* C9: the total error count is the sum over the rules of the rows received
\* for the rule; a rule contributes at most MAX_ERRORS_PER_TYPE rows.
C9_Total ==
    (script = "error" /\ mode = "normal") =>
        /\ total_error_count = SumSeq([i \in 1..Len(Fetched) |-> Fetched[i].rows])
        /\ \A i \in 1..Len(Fetched) : Fetched[i].rows <= MAX_ERRORS_PER_TYPE
        /\ \A i \in 1..Len(all_errors) :
              Len(all_errors[i].value.errors) <= MAX_ERRORS_PER_TYPE
        /\ total_error_count <= MAX_ERRORS_PER_TYPE * Len(Fetched)

\* eleven events matched the first rule and ten rows came back, the newest first
C9_Witness ==
    /\ ErrorRunOver
    /\ Fetched[1].rows = 10 /\ Fetched[2].rows = 3
    /\ all_errors[1].value.errors[1]["timestamp"] = Str(<<48 + 11>>)
    /\ total_error_count = 13

\* the projected properties present and non-empty in the row, in rule order
ShownProps ==
    SelectSeq(call.props_to_show,
              LAMBDA q : q \in DOMAIN call.error /\ call.error[q] # None
                         /\ call.error[q].s # <<>>)

\* C10: exactly the projected properties present and non-empty in the row are
\* shown, in the rule's order; a value of at most 80 characters is shown
\* unchanged, a longer one as its first 80 characters followed by "..."; a row
\* with no shown property renders as "No details".
C10_Format ==
    Returned =>
        /\ Len(ret.parts) = Len(ShownProps)
        /\ \A i \in 1..Len(ret.parts) :
              LET value == call.error[ShownProps[i]].s
                  shown == ret.parts[i].value_str
              IN /\ ret.parts[i].prop = ShownProps[i]
                 /\ Len(value) <= 80 => shown = value
                 /\ Len(value) > 80 =>
                       /\ Len(shown) = 83
                       /\ \A k \in 1..80 : shown[k] = value[k]
                       /\ \A k \in 81..83 : shown[k] = 46
        /\ ret.text = "No details" <=> ShownProps = <<>>

\* a row with an empty value, an 80-character value and an 81-character value
C10_Witness ==
    /\ Returned
    /\ call.props_to_show = <<"state", "error", "provider">>
    /\ call.error["state"] = Str(<<>>)
    /\ Len(call.error["error"].s) = 80 /\ Len(call.error["provider"].s) = 81
    /\ Len(ret.parts) = 2
    /\ ret.parts[1].value_str = call.error["error"].s
    /\ Len(ret.parts[2].value_str) = 83

\* the run is over, whatever its exit status
RunOver == script \in {"daily", "error", "digest"} /\ pc = "exited"

FailedPosts == SelectSeq(Posted, LAMBDA e : e.status_code # 200)

\* C11: a run issues at most one post request; when the post is answered with
\* a non-success status the failure is logged, the posting function returns
\* failure (send_slack's False) instead of raising, and the run ends normally
\* with exit status 0.
C11_SinkFailure ==
    /\ Len(Posted) <= 1
    /\ (RunOver /\ FailedPosts # <<>>) =>
          /\ ~send_slack_result(FailedPosts[1].status_code)
          /\ stdout[Len(stdout)] = "Slack error"
          /\ exit_code = 0

\* a normal run of one of the two reporters that reached its end
ReportRunOver ==
    script \in {"daily", "error"} /\ mode = "normal" /\ pc = "exited" /\ exit_code = 0

\* the error data the run received is empty: no category of the daily report,
\* no rule of the error reporter has an occurrence
ErrorDataEmpty ==
    IF script = "daily"
    THEN \A i \in 1..Len(ErrorSummaryNames) :
            metrics[ErrorSummaryNames[i]]["iOS"] + metrics[ErrorSummaryNames[i]]["Android"] = 0
    ELSE \A i \in 1..Len(Fetched) : Fetched[i].rows = 0

TitledBlocks(title) ==
    SelectSeq(blocks, LAMBDA b : "title" \in DOMAIN b /\ b.title = title)

PostsCarryBlocks == \A i \in 1..Len(Posted) : Posted[i].payload.blocks # <<>>

\* C12 as stated: in every report run whose error data is empty (no rule, no
\* category has an occurrence) the assembled blocks hold a single "no errors"
\* affirmation block in place of the error list, and the block list handed to
\* the chat sink is never empty.
C12_AffirmationInEveryReport ==
    /\ (ReportRunOver /\ ErrorDataEmpty) =>
          /\ Len(TitledBlocks("No errors yesterday!")) + Len(TitledBlocks("No errors")) = 1
          /\ TitledBlocks("Yesterday's Issues") = <<>>
    /\ PostsCarryBlocks

\* C12 amended: the daily report whose error categories are all empty holds a
\* single "no errors" affirmation block in the place of the error list; the
\* error reporter whose rules are all empty assembles and posts nothing and
\* only prints its "no errors" line; the block list of every post is non-empty.
C12_NoErrorsBlock ==
    /\ (ReportRunOver /\ script = "daily" /\ ErrorDataEmpty) =>
          /\ Len(TitledBlocks("No errors yesterday!")) = 1
          /\ blocks[Len(blocks) - 2].title = "No errors yesterday!"
          /\ TitledBlocks("Yesterday's Issues") = <<>>
    /\ (ReportRunOver /\ script = "error" /\ ErrorDataEmpty) =>
          /\ blocks = <<>> /\ Posted = <<>>
          /\ stdout[Len(stdout)] = "No errors in last 10 minutes"
    /\ PostsCarryBlocks

\* a daily run with activity but no issue in the window, every fetch answered
C12_Witness ==
    /\ ReportRunOver /\ script = "daily" /\ ErrorDataEmpty
    /\ \A i \in 1..Len(Fetched) : ~Fetched[i].failed
    /\ metrics["dau"]["iOS"] = 1
    /\ Len(TitledBlocks("No errors yesterday!")) = 1
    /\ Len(Posted) = 1 /\ Len(Posted[1].payload.blocks) = 13

\* C13: every post to the chat sink, in every script and run mode, carries a
\* non-empty plain-text fallback ("text") next to its blocks.
C13_TextFallback ==
    \A i \in 1..Len(Posted) :
        /\ "blocks" \in DOMAIN Posted[i].payload
        /\ "text" \in DOMAIN Posted[i].payload
        /\ Posted[i].payload.text.text # ""

FunnelZero == [started |-> 0, completed |-> 0, rate |-> 0]

\* the platforms named by a row of the answer the call received
AnsweredPlatforms ==
    IF trace[1].failed THEN {} ELSE {call.results[i][1] : i \in 1..Len(call.results)}

\* C14: the funnel result always has exactly the keys iOS and Android, each
\* with started, completed and rate; a platform without a row in the answer
\* (no rows at all, rows of the other platform only, rows of an unrecognised
\* platform) is all zero, no other key appears, and an empty answer is a
\* result, not an error.
C14_FixedShape ==
    Returned =>
        /\ DOMAIN ret = Platforms
        /\ \A os \in Platforms :
              /\ DOMAIN ret[os] = {"started", "completed", "rate"}
              /\ os \notin AnsweredPlatforms => ret[os] = FunnelZero
        /\ AnsweredPlatforms \cap Platforms = {} =>
              /\ ret = [os \in Platforms |-> FunnelZero]
              /\ exit_code = -1

\* an answer with a row for Android and a row for an unrecognised platform
C14_Witness ==
    /\ Returned /\ ~trace[1].failed
    /\ call.results = <<<<"Android", 2, 0>>, <<"Windows", 0, 1>>>>
    /\ ret["Android"] = [started |-> 2, completed |-> 0, rate |-> 0]
    /\ ret["iOS"] = FunnelZero

\* a normal run with its configuration complete that reached its end
ConfiguredRunOver ==
    script \in {"daily", "error", "digest"} /\ mode = "normal" /\ ~ConfigIncomplete
    /\ pc = "exited"

\* the values the request DailyFetches[i] can bring when the backend answers it
DailyAnswers(i) ==
    LET f    == DailyFetches[i]
        win  == WindowOf(f.window, DayOf(now))
        rows == FunnelRows(events, f.event, FunnelEnd(f.event), win[1], win[2])
        ok(results) == [status_code |-> 200, json |-> [results |-> results]]
    IN CASE f.kind = "count" ->
              {get_event_count_by_os(ok(CountByOsQuery(events, f.event, win[1], win[2])))}
         [] f.kind = "users" ->
              {get_unique_users_by_os(ok(UniqueUsersQuery(events, f.event, win[1], win[2])))}
         [] f.kind = "funnel" ->
              {get_real_funnel_conversion(ok(FunnelQuery(rows, FunnelEnd(f.event), att))) :
                  att \in Attributions(rows, f.event)}

\* the fetches of dashboards (not of their insights) of the digest
DashboardFetched == SelectSeq(Fetched, LAMBDA e : e.what \in Range(DashboardVars))

\* C15: a fetch failure is local.  A configured normal run always issues every
\* fetch of its script, whichever of them failed, and ends with the post of its
\* report (the error reporter whenever a rule brought rows); every section
\* whose own fetch succeeded is computed from its own data.
C15_FetchFailureLocal ==
    ConfiguredRunOver =>
        CASE script = "daily" ->
               /\ Len(Fetched) = Len(DailyFetches)
               /\ \A i \in 1..Len(Fetched) :
                     ~Fetched[i].failed => metrics[DailyFetches[i].name] \in DailyAnswers(i)
               /\ Len(Posted) = 1 /\ Posted[1].payload.blocks = DailyBlocks(metrics)
          [] script = "error" ->
               /\ Len(Fetched) = Len(rules)
               /\ \A i \in 1..Len(Fetched) :
                     (~Fetched[i].failed /\ Fetched[i].rows > 0) =>
                        \E k \in 1..Len(Sections) :
                            /\ Sections[k].header = rules[i].name
                            /\ Sections[k].count = Fetched[i].rows
               /\ (\E i \in 1..Len(Fetched) : Fetched[i].rows > 0) => Len(Posted) = 1
          [] script = "digest" ->
               /\ Len(DashboardFetched) = Len(get_dashboards(env))
               /\ Len(Sections) = Len(get_dashboards(env))
               /\ \A k \in 1..Len(DashboardFetched) :
                     /\ Sections[k].text.dashboard = DashboardFetched[k].what
                     /\ DashboardFetched[k].failed <=> Sections[k].text.body = "Error"
               /\ Len(Posted) = 1

\* the rows of an actor the funnel call looks at, and the platforms of the
\* earliest of them
ActorRows(a) ==
    {r \in Scoped(call.start_event) \cup Scoped(call.end_event) : r.distinct_id = a}
EarliestPlatforms(a) ==
    {r.os : r \in {q \in ActorRows(a) : \A o \in ActorRows(a) : q.timestamp <= o.timestamp}}

\* C16: every actor with a start row is counted under exactly one platform,
\* the platform of their earliest row among their start and end rows in the
\* window (of one of the earliest when several share the timestamp): the
\* result is the count of some such assignment, started sums to the number of
\* distinct actors with a start row.
C16_Attribution ==
    FunnelAnswered =>
        /\ TotalStarted = Cardinality(StartActors)
        /\ \E att \in [StartActors -> Platforms] :
              /\ \A a \in StartActors : att[a] \in EarliestPlatforms(a)
              /\ \A os \in Platforms :
                    /\ ret[os].started = Cardinality({a \in StartActors : att[a] = os})
                    /\ ret[os].completed =
                          Cardinality({a \in StartActors \cap EndActors : att[a] = os})

\* an actor whose earliest row is an end row on Android and whose start row is
\* on iOS is counted under Android
C16_Witness ==
    /\ FunnelAnswered
    /\ events = {Row("buy_payment_state_changed", "A", "Android", 1),
                 Row("buy_form_viewed", "A", "iOS", 2)}
    /\ ret["Android"] = [started |-> 1, completed |-> 1, rate |-> 1000]
    /\ ret["iOS"] = FunnelZero

\* the rows of an event on a recognised platform with from <= timestamp < to
InWindow(event_name, from, to) ==
    {r \in events : /\ r.event = event_name /\ r.os \in {"iOS", "Android"}
                    /\ from <= r.timestamp /\ r.timestamp < to}

\* what a fetch of the kind over [from, to) has to bring for a platform
Expected(kind, event_name, os, from, to) ==
    LET mine == {r \in InWindow(event_name, from, to) : r.os = os}
    IN IF kind = "count" THEN Cardinality(mine) ELSE Cardinality({r.distinct_id : r \in mine})

\* C17: every fetch counts exactly the events with from <= timestamp < to (one
\* at from is in, one at to is out); the daily report's current window
\* [yesterday, today) and previous window [day_before, yesterday) share the
\* bound yesterday and nothing else, so an event with
\* day_before <= timestamp < today is counted in exactly one of the periods.
C17_HalfOpenWindows ==
    Returned =>
        LET day_before == Midnight(DayOf(now) - 2)
            yesterday  == Midnight(DayOf(now) - 1)
            today      == Midnight(DayOf(now))
        IN CASE call.fn = "check_errors.fetch" ->
                  {ret[i]["timestamp"] : i \in 1..Len(ret)}
                  = {Str(<<48 + r.timestamp>>) :
                        r \in {q \in InWindow(call.error_def.event, now - TenMinutes, now) :
                                  FilterHolds(call.error_def.filter, q.properties)}}
             [] call.kind = "funnel" ->
                  ret.cur["iOS"].started + ret.cur["Android"].started
                  = Cardinality({r.distinct_id : r \in InWindow(call.event, yesterday, today)})
             [] OTHER ->
                  \A os \in Platforms :
                      /\ ret.cur[os] = Expected(call.kind, call.event, os, yesterday, today)
                      /\ ret.prev[os] = Expected(call.kind, call.event, os, day_before, yesterday)
                      /\ call.kind = "count" =>
                            ret.cur[os] + ret.prev[os]
                            = Expected("count", call.event, os, day_before, today)

\* events at day_before, at yesterday and at today: the first is counted in
\* the previous period only, the second in the current only, the third in none
C17_Witness ==
    /\ Returned /\ call.fn = "generate_daily_report.periods" /\ call.kind = "count"
    /\ events = {Row("buy_payment_state_changed", "A", "iOS", t) : t \in {2, 4, 6}}
    /\ ret.prev["iOS"] = 1 /\ ret.cur["iOS"] = 1

\* C18: in every funnel result computed from event rows, on every platform,
\* completed <= started and 0 <= rate <= 100: the actors counted as completed
\* are among those counted as started.
C18_CompletedWithinStarted ==
    Returned =>
        /\ \A os \in Platforms :
              /\ 0 <= ret[os].completed /\ ret[os].completed <= ret[os].started
              /\ 0 <= ret[os].rate /\ ret[os].rate <= 1000
        /\ FunnelAnswered =>
              /\ TotalCompleted <= Cardinality(StartActors \cap EndActors)
              /\ TotalStarted >= Cardinality(StartActors \cap EndActors)

\* more actors with an end row than with a start row, and the one who started
\* has two end rows
C18_Witness ==
    /\ FunnelAnswered
    /\ StartActors = {"A"} /\ EndActors = {"A", "B"}
    /\ Cardinality({r \in Scoped(call.end_event) : r.distinct_id = "A"}) = 2
    /\ TotalStarted = 1 /\ TotalCompleted = 1
    /\ \E os \in Platforms : ret[os].rate = 1000

\* the error lines of a message: the context blocks that show a row
ErrorLines(blks) == SelectSeq(blks, LAMBDA b : "props_text" \in DOMAIN b)
SectionCounts(blks) ==
    LET secs == SelectSeq(blks, LAMBDA b : b.type = "section")
    IN [k \in 1..Len(secs) |-> secs[k].count]

\* C19: in every message check_errors posts, whatever the rule list (two rules
\* may share an event name) and whatever the rules' fetches brought, the total
\* of the header and of the plain-text fallback is the sum of the counts of
\* the section headers, which is the number of error lines of the message.
C19_TotalMatchesSections ==
    (script = "error" /\ mode = "normal") =>
        \A i \in 1..Len(Posted) :
            LET payload == Posted[i].payload
            IN /\ payload.blocks[1].text.n = payload.text.n
               /\ payload.text.n = SumSeq(SectionCounts(payload.blocks))
               /\ SumSeq(SectionCounts(payload.blocks)) = Len(ErrorLines(payload.blocks))

====
